---- MODULE Spec2Model ----
(***************************************************************************)
(* Model of the debt payoff engine (backend/planner.py) and of the budget  *)
(* slip detector (backend/app/services/slip_detector.py).                  *)
(*                                                                         *)
(* Money is an integer number of cents.  The code computes in Decimal with *)
(* 28 significant digits and never quantizes; the model keeps the cent     *)
(* grid and rounds a product down to the cent, so on inputs whose monthly  *)
(* interest is a whole number of cents model and code agree exactly and    *)
(* elsewhere they differ below one cent per month.  float() of an amount   *)
(* is taken at the amount's value.                                         *)
(***************************************************************************)
EXTENDS Integers, Sequences, FiniteSets, TLC

VARIABLES
    debts,                \* the caller-supplied list of Debt objects
    extra_payment,        \* PayoffCalculator.extra_payment
    strategy,             \* strategy tag of the running call
    sorted_debts,         \* the list handed to _calculate_payoff_schedule
    working_debts,        \* the working copies, balances mutated month by month
    total_available,      \* total_minimum + extra_payment
    month,                \* the loop counter, 1-based
    schedule_len,         \* len(schedule)
    month_data,           \* the snapshot appended last
    prev_remaining,       \* remaining_balances of the snapshot before it
    start_balances,       \* working balances when the last month began
    after_interest,       \* working balances after step 1 of the last month
    after_minimums,       \* working balances after phase A of the last month
    remaining_payment,    \* remaining_payment after phase A of the last month
    total_interest_paid,  \* running total of interest charges
    total_payments,       \* sum of total_payment over the schedule
    payoff_timeline,      \* name -> first month with a zero recorded balance
    result,               \* the returned dictionary
    pc,                   \* position of the engine call
    clock,                \* the calendar month datetime.now() falls in
    current_date,         \* the loop's current_date, as a calendar month
    kept_results,         \* the results of earlier calls the caller holds
    comparison,           \* the 'comparison' entry of compare_strategies
    monthly_budget,       \* slip detector: the budget argument
    slip_debts,           \* slip detector: the debts argument
    slip_result,          \* slip detector: the returned dictionary
    retry_result,         \* slip detector: result of the follow-up analysis
    slip_pc,              \* slip detector: position of the caller
    raw_debts,            \* the list of raw debt dictionaries at hand
    validation,           \* outcome of validate_debt_portfolio
    cleaned_debts,        \* outcome of handle_edge_cases
    intake_pc,            \* position of the caller of the two functions
    request,              \* POST /plan: the request body
    response,             \* POST /plan: the response sent
    plan_pc,              \* POST /plan: position of the handler
    threads,              \* concurrent calls: each call's own locals
    working_sets          \* concurrent calls: the working lists, by reference

vars == <<debts, extra_payment, strategy, sorted_debts, working_debts,
          total_available, month, schedule_len, month_data, prev_remaining,
          start_balances, after_interest, after_minimums, remaining_payment,
          total_interest_paid, total_payments, payoff_timeline, result, pc,
          clock, current_date, kept_results, comparison,
          monthly_budget, slip_debts, slip_result, retry_result, slip_pc,
          raw_debts, validation, cleaned_debts, intake_pc,
          request, response, plan_pc, threads, working_sets>>

engine_vars == <<debts, extra_payment, strategy, sorted_debts, working_debts,
                 total_available, month, schedule_len, month_data,
                 prev_remaining, start_balances, after_interest,
                 after_minimums, remaining_payment, total_interest_paid,
                 total_payments, payoff_timeline, result, pc,
                 clock, current_date, kept_results, comparison>>

slip_vars == <<monthly_budget, slip_debts, slip_result, retry_result, slip_pc>>

intake_vars == <<raw_debts, validation, cleaned_debts, intake_pc>>

plan_vars == <<request, response, plan_pc>>

thread_vars == <<threads, working_sets>>

-----------------------------------------------------------------------------
(* Bounds of the model and constants of the program.                       *)

MaxDebts == 2

SafetyLimit == 600

NoId == 0

None == "None"

Min(a, b) == IF a <= b THEN a ELSE b

Max(a, b) == IF a >= b THEN a ELSE b

RECURSIVE SumSeq(_)
SumSeq(s) == IF s = <<>> THEN 0 ELSE Head(s) + SumSeq(Tail(s))

-----------------------------------------------------------------------------
(* Inputs: Debt objects.                                                   *)

Balances == {10000, 30000}

Rates == {0, 12}

MinimumPayments == {0, 6000, 40000}

ExtraPayments == {0, 5000}

DebtShapes ==
    [balance : Balances, interest_rate : Rates, minimum_payment : MinimumPayments]

NameOf(i) == <<"Card", "Loan", "Auto", "Store">>[i]

IdAssignments(n) == {[i \in 1..n |-> NoId], [i \in 1..n |-> i]}

NameAssignments(n) ==
    {[i \in 1..n |-> NameOf(i)], [i \in 1..n |-> NameOf(IF i = 2 THEN 1 ELSE i)]}

Debt(shape, id, name) ==
    [id |-> id, name |-> name, balance |-> shape.balance,
     interest_rate |-> shape.interest_rate,
     minimum_payment |-> shape.minimum_payment, due_date |-> 15]

ExamplePortfolios ==
    { <<Debt([balance |-> 100000, interest_rate |-> 12, minimum_payment |-> 20000],
             NoId, "Test Debt")>>,
      <<Debt([balance |-> 2500, interest_rate |-> 15, minimum_payment |-> 5000],
             NoId, "Small Debt")>> }

\* Two debts on which the order of the strategies decides the interest paid.
SavingsPortfolios ==
    { <<Debt([balance |-> 200000, interest_rate |-> 0, minimum_payment |-> 5000],
             1, "Car Loan"),
        Debt([balance |-> 500000, interest_rate |-> 24, minimum_payment |-> 15000],
             2, "Credit Card")>>,
      <<Debt([balance |-> 200000, interest_rate |-> 0, minimum_payment |-> 10000],
             1, "Car Loan"),
        Debt([balance |-> 500000, interest_rate |-> 24, minimum_payment |-> 15000],
             2, "Credit Card")>> }

\* One debt whose minimum payment lies between its balance and its balance
\* with a month's interest, and one whose minimum payment equals the latter.
FinalPaymentPortfolios ==
    { <<Debt([balance |-> 10000, interest_rate |-> 12, minimum_payment |-> 10050],
             NoId, "Small Debt")>>,
      <<Debt([balance |-> 10000, interest_rate |-> 12, minimum_payment |-> 10100],
             NoId, "Small Debt")>> }

PortfoliosOfSize(n) ==
    { [i \in 1..n |-> Debt(shapes[i], ids[i], names[i])] :
        shapes \in [1..n -> DebtShapes], ids \in IdAssignments(n),
        names \in NameAssignments(n) }

Portfolios ==
    ExamplePortfolios \cup SavingsPortfolios \cup FinalPaymentPortfolios
        \cup UNION {PortfoliosOfSize(n) : n \in 0..MaxDebts}

-----------------------------------------------------------------------------
(* Strategy ordering: Python's sorted() is a stable sort.  A list is       *)
(* sorted as pairs <<key, item>>, an item going after every item whose key *)
(* is not greater than its own.                                            *)

\* An insertion that also passes the items whose key equals its own.
RECURSIVE InsertByKeyUnstable(_, _)
InsertByKeyUnstable(x, s) ==
    IF s = <<>> THEN <<x>>
    ELSE IF x[1] <= Head(s)[1] THEN <<x>> \o s
    ELSE <<Head(s)>> \o InsertByKeyUnstable(x, Tail(s))

RECURSIVE InsertByKey(_, _)
InsertByKey(x, s) ==
    IF s = <<>> THEN <<x>>
    ELSE IF x[1] < Head(s)[1] THEN <<x>> \o s
    ELSE <<Head(s)>> \o InsertByKey(x, Tail(s))

RECURSIVE SortedByKey(_)
SortedByKey(s) ==
    IF s = <<>> THEN <<>>
    ELSE InsertByKey(s[Len(s)], SortedByKey(SubSeq(s, 1, Len(s) - 1)))

Items(pairs) == [i \in 1..Len(pairs) |-> pairs[i][2]]

BalanceKey(d) == d.balance

RateKeyReversed(d) == 0 - d.interest_rate

\* The list handed on as it came, the sort left out.
SnowballOrderUnsorted(ds) == ds

\* sorted(debts, key=lambda d: d.balance)
SnowballOrder(ds) ==
    Items(SortedByKey([i \in 1..Len(ds) |-> <<BalanceKey(ds[i]), ds[i]>>]))

\* sorted(debts, key=lambda d: d.interest_rate, reverse=True)
AvalancheOrder(ds) ==
    Items(SortedByKey([i \in 1..Len(ds) |-> <<RateKeyReversed(ds[i]), ds[i]>>]))

-----------------------------------------------------------------------------
(* One month of _calculate_payoff_schedule, step by step.                  *)

AnyBalance(wd) == \E i \in 1..Len(wd) : wd[i].balance > 0

\* The annual rate charged every month.
InterestChargeAnnual(d) == (d.balance * d.interest_rate) \div 100

\* No interest charged.
InterestChargeNone(d) == 0

\* interest_charge = balance * (interest_rate / 100 / 12)
InterestCharge(d) == (d.balance * d.interest_rate) \div 1200

\* Step 1: interest is added to every debt with a positive balance.
AccrueInterest(wd) ==
    [i \in 1..Len(wd) |->
        IF wd[i].balance > 0
        THEN [wd[i] EXCEPT !.balance = @ + InterestCharge(wd[i])]
        ELSE wd[i]]

TotalInterestCharge(wd) ==
    SumSeq([i \in 1..Len(wd) |->
        IF wd[i].balance > 0 THEN InterestCharge(wd[i]) ELSE 0])

\* Phase A: payment = min(minimum_payment, balance) on every positive balance.
MinimumPaymentUncapped(d) == d.minimum_payment

MinimumPaymentOf(d) == Min(d.minimum_payment, d.balance)

PayMinimums(wd) ==
    [i \in 1..Len(wd) |->
        IF wd[i].balance > 0
        THEN [wd[i] EXCEPT !.balance = @ - MinimumPaymentOf(wd[i])]
        ELSE wd[i]]

TotalMinimumsPaid(wd) ==
    SumSeq([i \in 1..Len(wd) |->
        IF wd[i].balance > 0 THEN MinimumPaymentOf(wd[i]) ELSE 0])

\* The record appended for a debt in phase A; the balance read for
\* interest_portion is the balance after the payment was subtracted.
PaymentRecord(d) ==
    LET payment == MinimumPaymentOf(d)
        left == d.balance - payment
    IN [debt_id |-> d.id, debt_name |-> d.name, payment |-> payment,
        interest_portion |->
            IF left > 0 THEN (left * d.interest_rate) \div 1200 ELSE 0,
        principal_portion |-> payment]

\* A record appended for every debt, paid off or not.
MinimumRecordsOfAll(wd) == [i \in 1..Len(wd) |-> PaymentRecord(wd[i])]

RECURSIVE MinimumRecords(_)
MinimumRecords(wd) ==
    IF wd = <<>> THEN <<>>
    ELSE IF Head(wd).balance > 0
         THEN <<PaymentRecord(Head(wd))>> \o MinimumRecords(Tail(wd))
         ELSE MinimumRecords(Tail(wd))

\* Phase B: the first debt in order with a positive balance, 0 when none.
PriorityIndex(wd) ==
    IF AnyBalance(wd)
    THEN CHOOSE i \in 1..Len(wd) :
            /\ wd[i].balance > 0
            /\ \A j \in 1..(i - 1) : wd[j].balance <= 0
    ELSE 0

\* The surplus left unapplied.
ExtraAppliedNever(wd, remaining) == 0

ExtraApplied(wd, remaining) ==
    IF remaining > 0 /\ PriorityIndex(wd) # 0
    THEN Min(remaining, wd[PriorityIndex(wd)].balance)
    ELSE 0

\* A cascade that hands what the priority debt cannot absorb to the next debt.
RECURSIVE CascadeFrom(_, _, _)
CascadeFrom(wd, remaining, i) ==
    IF i > Len(wd) \/ remaining <= 0 THEN wd
    ELSE LET pay == Min(remaining, Max(wd[i].balance, 0))
         IN CascadeFrom([wd EXCEPT ![i].balance = @ - pay], remaining - pay, i + 1)

ApplyExtraCascading(wd, remaining) == CascadeFrom(wd, remaining, 1)

\* The whole surplus taken off the priority debt, the cap left out.
ApplyExtraInFull(wd, remaining) ==
    IF remaining > 0 /\ PriorityIndex(wd) # 0
    THEN [wd EXCEPT ![PriorityIndex(wd)].balance = @ - remaining]
    ELSE wd

ApplyExtra(wd, remaining) ==
    IF remaining > 0 /\ PriorityIndex(wd) # 0
    THEN [wd EXCEPT ![PriorityIndex(wd)].balance = @ - ExtraApplied(wd, remaining)]
    ELSE wd

\* The first payment record whose debt_id equals the given id, 0 when none.
RecordIndex(payments, id) ==
    IF \E j \in 1..Len(payments) : payments[j].debt_id = id
    THEN CHOOSE j \in 1..Len(payments) :
            /\ payments[j].debt_id = id
            /\ \A k \in 1..(j - 1) : payments[k].debt_id # id
    ELSE 0

UpdateRecordSkipped(payments, wd, remaining) == payments

UpdateRecord(payments, wd, remaining) ==
    LET p == PriorityIndex(wd)
        j == IF p = 0 THEN 0 ELSE RecordIndex(payments, wd[p].id)
        extra == ExtraApplied(wd, remaining)
    IN IF remaining > 0 /\ p # 0 /\ j # 0
       THEN [payments EXCEPT ![j].payment = @ + extra,
                             ![j].principal_portion = @ + extra]
       ELSE payments

\* remaining_balances[name] = balance, assigned in list order: with a name
\* carried by two debts the later assignment is the one that stays.
Names(wd) == {wd[i].name : i \in 1..Len(wd)}

LastIndexOfName(wd, name) ==
    CHOOSE i \in 1..Len(wd) :
        /\ wd[i].name = name
        /\ \A j \in (i + 1)..Len(wd) : wd[j].name # name

RemainingBalances(wd) ==
    [name \in Names(wd) |-> wd[LastIndexOfName(wd, name)].balance]

BalancesOf(wd) == [i \in 1..Len(wd) |-> wd[i].balance]

-----------------------------------------------------------------------------
(* The engine call as a state machine.                                     *)

NoMonth ==
    [month |-> 0, date |-> 0, payments |-> <<>>, total_payment |-> 0, total_interest |-> 0,
     remaining_balances |-> <<>>]

EngineIdle ==
    /\ debts = <<>>
    /\ extra_payment = 0
    /\ strategy = None
    /\ sorted_debts = <<>>
    /\ working_debts = <<>>
    /\ total_available = 0
    /\ month = 0
    /\ schedule_len = 0
    /\ month_data = NoMonth
    /\ prev_remaining = <<>>
    /\ start_balances = <<>>
    /\ after_interest = <<>>
    /\ after_minimums = <<>>
    /\ remaining_payment = 0
    /\ total_interest_paid = 0
    /\ total_payments = 0
    /\ payoff_timeline = <<>>
    /\ result = None
    /\ pc = "idle"
    /\ clock = 0
    /\ current_date = 0
    /\ kept_results = <<>>
    /\ comparison = None

SlipIdle ==
    /\ monthly_budget = 0
    /\ slip_debts = <<>>
    /\ slip_result = None
    /\ retry_result = None
    /\ slip_pc = "idle"

IntakeIdle ==
    /\ raw_debts = <<>>
    /\ validation = None
    /\ cleaned_debts = None
    /\ intake_pc = "idle"

PlanIdle ==
    /\ request = None
    /\ response = None
    /\ plan_pc = "idle"

ThreadsIdle ==
    /\ threads = <<>>
    /\ working_sets = <<>>

\* PayoffCalculator(extra_payment) constructed, a debt list at hand.
EngineInit ==
    /\ debts \in Portfolios
    /\ extra_payment \in ExtraPayments
    /\ strategy = None
    /\ sorted_debts = <<>>
    /\ working_debts = <<>>
    /\ total_available = 0
    /\ month = 0
    /\ schedule_len = 0
    /\ month_data = NoMonth
    /\ prev_remaining = <<>>
    /\ start_balances = <<>>
    /\ after_interest = <<>>
    /\ after_minimums = <<>>
    /\ remaining_payment = 0
    /\ total_interest_paid = 0
    /\ total_payments = 0
    /\ payoff_timeline = <<>>
    /\ result = None
    /\ pc = "call"
    /\ clock = 0
    /\ current_date = 0
    /\ kept_results = <<>>
    /\ comparison = None

\* sorted() returns a new list and the working copies are new dictionaries:
\* the caller's list and its objects are what they were.
CallerListSortedInPlace(ds, ordered) == ordered

CallerList(ds, ordered) == ds

\* Entry of _calculate_payoff_schedule with fresh locals: the working
\* copies, the payment capacity and the loop variables.
EnterSchedule(ordered, tag) ==
    /\ debts' = CallerList(debts, ordered)
    /\ strategy' = tag
    /\ sorted_debts' = ordered
    /\ working_debts' = ordered
    /\ total_available' =
           SumSeq([i \in 1..Len(ordered) |-> ordered[i].minimum_payment])
           + extra_payment
    /\ month' = 1
    /\ schedule_len' = 0
    /\ current_date' = clock
    /\ total_interest_paid' = 0
    /\ month_data' = NoMonth
    /\ prev_remaining' = <<>>
    /\ start_balances' = <<>>
    /\ after_interest' = <<>>
    /\ after_minimums' = <<>>
    /\ remaining_payment' = 0
    /\ total_payments' = 0
    /\ payoff_timeline' = <<>>
    /\ result' = None
    /\ pc' = "loop"
    /\ UNCHANGED <<extra_payment, clock>>
    /\ UNCHANGED slip_vars
    /\ UNCHANGED intake_vars
    /\ UNCHANGED plan_vars
    /\ UNCHANGED thread_vars

CalculateSnowball ==
    /\ pc = "call"
    /\ EnterSchedule(SnowballOrder(debts), "snowball")
    /\ UNCHANGED <<kept_results, comparison>>

CalculateAvalanche ==
    /\ pc = "call"
    /\ EnterSchedule(AvalancheOrder(debts), "avalanche")
    /\ UNCHANGED <<kept_results, comparison>>

\* The payoff timeline is read off the schedule after the loop: per debt of
\* sorted_debts, the first month whose remaining_balances[debt.name] is 0.
\* The model keeps the schedule's last snapshot only and notes that first
\* month when the snapshot is appended.
NoteTimeline(timeline, remaining, m) ==
    [name \in DOMAIN remaining |->
        IF name \in DOMAIN timeline /\ timeline[name] # 0 THEN timeline[name]
        ELSE IF remaining[name] = 0 THEN m ELSE 0]

\* if month > 600: break
SafetyBreakEarly(m) == m >= SafetyLimit

SafetyBreak(m) == m > SafetyLimit

\* One pass of the while loop.
MonthStep ==
    /\ pc = "loop"
    /\ AnyBalance(working_debts)
    /\ LET wd1 == AccrueInterest(working_debts)
           interest == TotalInterestCharge(working_debts)
           wd2 == PayMinimums(wd1)
           remaining == total_available - TotalMinimumsPaid(wd1)
           wd3 == ApplyExtra(wd2, remaining)
           payments == UpdateRecord(MinimumRecords(wd1), wd2, remaining)
           total_payment == TotalMinimumsPaid(wd1) + ExtraApplied(wd2, remaining)
           balances == RemainingBalances(wd3)
       IN /\ working_debts' = wd3
          /\ start_balances' = BalancesOf(working_debts)
          /\ after_interest' = BalancesOf(wd1)
          /\ after_minimums' = BalancesOf(wd2)
          /\ remaining_payment' = remaining
          /\ month_data' =
                [month |-> month, date |-> current_date, payments |-> payments,
                 total_payment |-> total_payment, total_interest |-> interest,
                 remaining_balances |-> balances]
          /\ prev_remaining' = month_data.remaining_balances
          /\ total_interest_paid' = total_interest_paid + interest
          /\ total_payments' = total_payments + total_payment
          /\ payoff_timeline' = NoteTimeline(payoff_timeline, balances, month)
    /\ schedule_len' = schedule_len + 1
    /\ month' = month + 1
    /\ current_date' = current_date + 1
    /\ pc' = IF SafetyBreak(month + 1) THEN "break" ELSE "loop"
    /\ UNCHANGED <<debts, extra_payment, strategy, sorted_debts,
                   total_available, result, clock, kept_results, comparison>>
    /\ UNCHANGED slip_vars
    /\ UNCHANGED intake_vars
    /\ UNCHANGED plan_vars
    /\ UNCHANGED thread_vars

\* After the loop: the summary statistics and the returned dictionary.
Summarize ==
    /\ \/ pc = "break"
       \/ pc = "loop" /\ ~AnyBalance(working_debts)
    /\ result' =
          [strategy |-> strategy,
           total_months |-> schedule_len,
           total_payments |-> total_payments,
           total_interest |-> total_interest_paid,
           payoff_timeline |->
               [name \in {n \in DOMAIN payoff_timeline : payoff_timeline[n] # 0}
                   |-> [month |-> payoff_timeline[name],
                        date |-> current_date - month + payoff_timeline[name]]],
           total_debt |->
               SumSeq([i \in 1..Len(sorted_debts) |-> sorted_debts[i].balance]),
           completion_date |->
               IF schedule_len > 0 THEN <<month_data.date>> ELSE <<>>]
    /\ pc' = "done"
    /\ UNCHANGED <<debts, extra_payment, strategy, sorted_debts, working_debts,
                   total_available, month, schedule_len, month_data,
                   prev_remaining, start_balances, after_interest,
                   after_minimums, remaining_payment, total_interest_paid,
                   total_payments, payoff_timeline, clock, current_date,
                   kept_results, comparison>>
    /\ UNCHANGED slip_vars
    /\ UNCHANGED intake_vars
    /\ UNCHANGED plan_vars
    /\ UNCHANGED thread_vars

Init == EngineInit /\ SlipIdle /\ IntakeIdle /\ PlanIdle /\ ThreadsIdle

Next == CalculateSnowball \/ CalculateAvalanche \/ MonthStep \/ Summarize

Spec == Init /\ [][Next]_vars

-----------------------------------------------------------------------------
(* compare_strategies: both strategies on the same list, then the          *)
(* comparison.                                                             *)

Abs(n) == IF n < 0 THEN 0 - n ELSE n

\* 'avalanche' if interest_difference > 100 else 'snowball'
RecommendedAboveSignificant(interest_difference) ==
    IF interest_difference > 50000 THEN "avalanche" ELSE "snowball"

RecommendedStrategy(interest_difference) ==
    IF interest_difference > 10000 THEN "avalanche" ELSE "snowball"

\* _get_recommendation_reason: the text as its fixed parts and the values
\* formatted into it.
GetRecommendationReason(interest_diff, time_diff) ==
    IF interest_diff > 50000
    THEN [text |-> "Avalanche saves $(1) in interest over (2) months - significant financial benefit",
          values |-> <<interest_diff, time_diff>>]
    ELSE IF interest_diff > 10000
    THEN [text |-> "Avalanche saves $(1) in interest with similar timeline - moderate financial benefit",
          values |-> <<interest_diff>>]
    ELSE IF time_diff < 0 - 3
    THEN [text |-> "Snowball completes (1) months faster - psychological momentum may improve success rate",
          values |-> <<Abs(time_diff)>>]
    ELSE [text |-> "Both strategies have similar outcomes; choose based on personal motivation style",
          values |-> <<>>]

Comparison(snowball_result, avalanche_result) ==
    LET interest_difference ==
            snowball_result.total_interest - avalanche_result.total_interest
        time_difference ==
            snowball_result.total_months - avalanche_result.total_months
    IN [avalanche_saves_interest |-> interest_difference,
        avalanche_saves_months |-> time_difference,
        recommended_strategy |-> RecommendedStrategy(interest_difference),
        recommendation_reason |->
            GetRecommendationReason(interest_difference, time_difference)]

\* snowball_result is kept and calculate_avalanche(debts) is entered.
CompareRunAvalanche ==
    /\ pc = "done"
    /\ strategy = "snowball"
    /\ kept_results' = <<result>>
    /\ EnterSchedule(AvalancheOrder(debts), "avalanche")
    /\ UNCHANGED comparison

\* Both results at hand: the differences and the recommendation.
CompareStrategies ==
    /\ pc = "done"
    /\ strategy = "avalanche"
    /\ comparison' = Comparison(kept_results[1], result)
    /\ pc' = "compared"
    /\ UNCHANGED <<debts, extra_payment, strategy, sorted_debts, working_debts,
                   total_available, month, schedule_len, month_data,
                   prev_remaining, start_balances, after_interest,
                   after_minimums, remaining_payment, total_interest_paid,
                   total_payments, payoff_timeline, result, clock, current_date,
                   kept_results>>
    /\ UNCHANGED slip_vars
    /\ UNCHANGED intake_vars
    /\ UNCHANGED plan_vars
    /\ UNCHANGED thread_vars

CompareNext ==
    CalculateSnowball \/ MonthStep \/ Summarize \/ CompareRunAvalanche
        \/ CompareStrategies

CompareSpec == Init /\ [][CompareNext]_vars

-----------------------------------------------------------------------------
(* A caller that runs the same strategy twice on the same list, the        *)
(* calendar moving on between the two calls.                               *)

MaxTicks == 1

\* The calendar month turns; datetime.now() is read at the entry of a call.
Tick ==
    /\ pc = "done"
    /\ kept_results = <<>>
    /\ clock < MaxTicks
    /\ clock' = clock + 1
    /\ UNCHANGED <<debts, extra_payment, strategy, sorted_debts, working_debts,
                   total_available, month, schedule_len, month_data,
                   prev_remaining, start_balances, after_interest,
                   after_minimums, remaining_payment, total_interest_paid,
                   total_payments, payoff_timeline, result, pc, current_date,
                   kept_results, comparison>>
    /\ UNCHANGED slip_vars
    /\ UNCHANGED intake_vars
    /\ UNCHANGED plan_vars
    /\ UNCHANGED thread_vars

\* The first result is kept and the same method is called again.
RunAgain ==
    /\ pc = "done"
    /\ kept_results = <<>>
    /\ kept_results' = <<result>>
    /\ EnterSchedule(IF strategy = "snowball" THEN SnowballOrder(debts)
                     ELSE AvalancheOrder(debts), strategy)
    /\ UNCHANGED comparison

RepeatNext ==
    CalculateSnowball \/ CalculateAvalanche \/ MonthStep \/ Summarize
        \/ Tick \/ RunAgain

RepeatSpec == Init /\ [][RepeatNext]_vars

-----------------------------------------------------------------------------
(* SlipDetector (app/services/slip_detector.py).                           *)

MaxSlipDebts == 2

minimum_suggestion == 2500

suggestion_increment == 2500

Budgets == {0 - 10000, 0, 1, 2500, 10000, 12500, 40000}

SlipMinimums == {0, 11000, 12500, 12600, 15000, 15100, 20000, 22550}

SlipDebt(payment) == [minimum_payment |-> payment]

SlipPortfolios ==
    UNION { [1..n -> {SlipDebt(p) : p \in SlipMinimums}] : n \in 0..MaxSlipDebts }

\* _calculate_total_minimum_payments
CalculateTotalMinimumPayments(ds) ==
    SumSeq([i \in 1..Len(ds) |-> ds[i].minimum_payment])

\* math.ceil(float(shortfall / increment)) for a positive shortfall.  On
\* the cent grid the quotient has at most four decimals and float() keeps
\* it on the same side of every integer, so the ceiling is the exact one.
FloorOfQuotient(a, b) == a \div b

CeilOfQuotient(a, b) == IF a % b = 0 THEN a \div b ELSE (a \div b) + 1

\* _calculate_remediation_suggestion
SuggestionFloorOnly(shortfall) == IF shortfall <= 0 THEN 0 ELSE minimum_suggestion

CalculateRemediationSuggestion(shortfall) ==
    IF shortfall <= 0 THEN 0
    ELSE Max(minimum_suggestion,
             CeilOfQuotient(shortfall, suggestion_increment) * suggestion_increment)

\* f'{amount:.0f}': a Decimal amount printed with no decimals, half to even.
WholeDollars(cents) ==
    LET q == cents \div 100
        r == cents % 100
    IN IF r > 50 \/ (r = 50 /\ q % 2 = 1) THEN q + 1 ELSE q

SuggestionText(amount) == <<"Apply $", WholeDollars(amount)>>

CreateFeasibleResponse(budget, total) ==
    [is_feasible |-> TRUE, has_slip |-> FALSE, monthly_budget |-> budget,
     total_minimum_payments |-> total,
     surplus |-> budget - total, shortfall |-> 0,
     suggestion_amount |-> 0, suggestion_text |-> <<>>,
     message |-> "Budget is sufficient for all minimum payments"]

\* The slip response with the budget reported as surplus.
CreateSlipResponseWithSurplus(budget, total, shortfall, suggestion) ==
    [is_feasible |-> FALSE, has_slip |-> TRUE, monthly_budget |-> budget,
     total_minimum_payments |-> total, surplus |-> budget,
     shortfall |-> shortfall, suggestion_amount |-> suggestion,
     suggestion_text |-> SuggestionText(suggestion),
     message |-> "Budget shortfall"]

CreateSlipResponse(budget, total, shortfall, suggestion) ==
    [is_feasible |-> FALSE, has_slip |-> TRUE, monthly_budget |-> budget,
     total_minimum_payments |-> total, surplus |-> 0,
     shortfall |-> shortfall, suggestion_amount |-> suggestion,
     suggestion_text |-> SuggestionText(suggestion),
     message |-> "Budget shortfall"]

CreateZeroBudgetResponse ==
    [is_feasible |-> FALSE, has_slip |-> TRUE, monthly_budget |-> 0,
     total_minimum_payments |-> 0, surplus |-> 0, shortfall |-> 0,
     suggestion_amount |-> minimum_suggestion,
     suggestion_text |-> SuggestionText(minimum_suggestion),
     message |-> "No budget available"]

CreateNoDebtsResponse(budget) ==
    [is_feasible |-> TRUE, has_slip |-> FALSE, monthly_budget |-> budget,
     total_minimum_payments |-> 0, surplus |-> budget, shortfall |-> 0,
     suggestion_amount |-> 0, suggestion_text |-> <<>>,
     message |-> "No debts to analyze"]

\* if monthly_budget >= total_minimum_payments
BudgetCoversStrictly(budget, total) == budget > total

BudgetCovers(budget, total) == budget >= total

\* analyze_budget_feasibility
AnalyzeDebtsFirst(budget, ds) ==
    IF ds = <<>> THEN CreateNoDebtsResponse(budget)
    ELSE IF budget <= 0 THEN CreateZeroBudgetResponse
    ELSE LET total == CalculateTotalMinimumPayments(ds)
         IN IF BudgetCovers(budget, total) THEN CreateFeasibleResponse(budget, total)
            ELSE CreateSlipResponse(budget, total, total - budget,
                     CalculateRemediationSuggestion(total - budget))

AnalyzeBudgetFeasibility(budget, ds) ==
    IF budget <= 0 THEN CreateZeroBudgetResponse
    ELSE IF ds = <<>> THEN CreateNoDebtsResponse(budget)
    ELSE LET total == CalculateTotalMinimumPayments(ds)
         IN IF BudgetCovers(budget, total) THEN CreateFeasibleResponse(budget, total)
            ELSE CreateSlipResponse(budget, total, total - budget,
                     CalculateRemediationSuggestion(total - budget))

SlipInit ==
    /\ monthly_budget \in Budgets
    /\ slip_debts \in SlipPortfolios
    /\ slip_result = None
    /\ retry_result = None
    /\ slip_pc = "call"

\* POST /check: one analysis of the request.
CheckSlip ==
    /\ slip_pc = "call"
    /\ slip_result' = AnalyzeBudgetFeasibility(monthly_budget, slip_debts)
    /\ slip_pc' = "analyzed"
    /\ UNCHANGED <<monthly_budget, slip_debts, retry_result>>
    /\ UNCHANGED engine_vars
    /\ UNCHANGED intake_vars
    /\ UNCHANGED plan_vars
    /\ UNCHANGED thread_vars

\* The user raises the budget by the suggested amount and asks again.
ApplySuggestion ==
    /\ slip_pc = "analyzed"
    /\ slip_result.has_slip
    /\ retry_result' =
          AnalyzeBudgetFeasibility(monthly_budget + slip_result.suggestion_amount,
                                   slip_debts)
    /\ slip_pc' = "retried"
    /\ UNCHANGED <<monthly_budget, slip_debts, slip_result>>
    /\ UNCHANGED engine_vars
    /\ UNCHANGED intake_vars
    /\ UNCHANGED plan_vars
    /\ UNCHANGED thread_vars

SlipNext == CheckSlip \/ ApplySuggestion

SlipSpecInit == SlipInit /\ EngineIdle /\ IntakeIdle /\ PlanIdle /\ ThreadsIdle

SlipSpec == SlipSpecInit /\ [][SlipNext]_vars

-----------------------------------------------------------------------------
(* Raw debt dictionaries, as validate_debt_portfolio and handle_edge_cases *)
(* receive them.  A numeric field is a number, a string that is not a      *)
(* number, or not in the dictionary; a name is a string or not in the      *)
(* dictionary.                                                             *)

MaxRawDebts == 2

MaxPortfolioSize == 10

RawNumber(v) == [kind |-> "number", value |-> v]

RawText == [kind |-> "text", value |-> 0]

RawAbsent == [kind |-> "absent", value |-> 0]

RawName(text) == [kind |-> "text", text |-> text]

NoName == [kind |-> "absent", text |-> ""]

\* name.strip() is empty
Blank(text) == text \in {"", "  "}

RawBalances == {RawAbsent, RawText} \cup {RawNumber(v) : v \in {0 - 10000, 0, 5000, 10000}}

RawRates == {RawAbsent, RawText} \cup {RawNumber(v) : v \in {0 - 5, 0, 12, 100, 150}}

RawMinimums ==
    {RawAbsent, RawText} \cup {RawNumber(v) : v \in {0 - 2500, 0, 5000, 7500, 20000}}

RawNames == {NoName, RawName(""), RawName("  "), RawName("Card")}

RawDueDates == {RawAbsent, RawText} \cup {RawNumber(v) : v \in {0, 1, 15, 31, 32}}

RawDebts ==
    [name : RawNames, balance : RawBalances, interest_rate : RawRates,
     minimum_payment : RawMinimums, due_date : RawDueDates]

\* The dictionaries that lists of several debts are made of.
ListedRawDebts ==
    [name : {RawName("Card")},
     balance : {RawText, RawNumber(0), RawNumber(5000), RawNumber(10000)},
     interest_rate : {RawNumber(12), RawNumber(150)},
     minimum_payment : {RawAbsent, RawNumber(7500)},
     due_date : {RawNumber(15)}]

SampleRawDebt ==
    [name |-> RawName("Card"), balance |-> RawNumber(10000),
     interest_rate |-> RawNumber(12), minimum_payment |-> RawNumber(5000),
     due_date |-> RawNumber(15)]

RawPortfolios ==
    {<<>>} \cup {<<d>> : d \in RawDebts}
        \cup UNION {[1..n -> ListedRawDebts] : n \in 2..MaxRawDebts}
        \cup {[i \in 1..n |-> SampleRawDebt] :
                n \in {MaxPortfolioSize, MaxPortfolioSize + 1}}

-----------------------------------------------------------------------------
(* validate_debt_portfolio.  The function's locals are threaded through    *)
(* the debts: the errors collected, the local 'balance' (unbound until a   *)
(* first balance converts) and the exception that ended the call, if any.  *)

Error(i, text) == [debt |-> i, text |-> text]

Add(st, i, text) == [st EXCEPT !.errors = Append(@, Error(i, text))]

Raise(st, exception) == [st EXCEPT !.raised = exception]

Running(st) == st.raised = ""

\* for field in required_fields: if field not in debt: errors.append(...)
MissingFields(debt, i, st) ==
    LET s1 == IF debt.name.kind = "absent"
              THEN Add(st, i, "Missing required field 'name'") ELSE st
        s2 == IF debt.balance.kind = "absent"
              THEN Add(s1, i, "Missing required field 'balance'") ELSE s1
        s3 == IF debt.interest_rate.kind = "absent"
              THEN Add(s2, i, "Missing required field 'interest_rate'") ELSE s2
    IN IF debt.minimum_payment.kind = "absent"
       THEN Add(s3, i, "Missing required field 'minimum_payment'") ELSE s3

\* balance = float(debt['balance']) and its two checks
CheckBalance(debt, i, st) ==
    IF ~Running(st) THEN st
    ELSE IF debt.balance.kind = "absent" THEN Raise(st, "KeyError")
    ELSE IF debt.balance.kind = "text" THEN Add(st, i, "Invalid balance value")
    ELSE LET bound == [st EXCEPT !.balance_bound = TRUE,
                                 !.balance = debt.balance.value]
         IN IF debt.balance.value < 0 THEN Add(bound, i, "Balance cannot be negative")
            ELSE IF debt.balance.value = 0
                 THEN Add(bound, i, "Zero balance debts should be excluded")
                 ELSE bound

\* interest_rate = float(debt['interest_rate']) and its check
CheckInterestRate(debt, i, st) ==
    IF ~Running(st) THEN st
    ELSE IF debt.interest_rate.kind = "absent" THEN Raise(st, "KeyError")
    ELSE IF debt.interest_rate.kind = "text"
         THEN Add(st, i, "Invalid interest rate value")
    ELSE IF debt.interest_rate.value < 0 \/ debt.interest_rate.value > 100
         THEN Add(st, i, "Interest rate must be between 0-100%")
         ELSE st

\* elif min_payment > balance
ExceedsOrEqualsBalance(min_payment, balance) == min_payment >= balance

ExceedsBalance(min_payment, balance) == min_payment > balance

\* min_payment = float(debt['minimum_payment']) and its two checks; the
\* second reads the local 'balance', whatever it holds.
CheckMinimumPayment(debt, i, st) ==
    IF ~Running(st) THEN st
    ELSE IF debt.minimum_payment.kind = "absent" THEN Raise(st, "KeyError")
    ELSE IF debt.minimum_payment.kind = "text"
         THEN Add(st, i, "Invalid minimum payment value")
    ELSE IF debt.minimum_payment.value < 0
         THEN Add(st, i, "Minimum payment cannot be negative")
    ELSE IF ~st.balance_bound THEN Raise(st, "UnboundLocalError")
    ELSE IF ExceedsBalance(debt.minimum_payment.value, st.balance)
         THEN Add(st, i, "Minimum payment exceeds balance")
         ELSE st

\* if not debt.get('name', '').strip()
CheckName(debt, i, st) ==
    IF ~Running(st) THEN st
    ELSE IF debt.name.kind = "absent" \/ Blank(debt.name.text)
         THEN Add(st, i, "Name cannot be empty")
         ELSE st

ValidateDebt(debt, i, st) ==
    CheckName(debt, i,
        CheckMinimumPayment(debt, i,
            CheckInterestRate(debt, i,
                CheckBalance(debt, i, MissingFields(debt, i, st)))))

RECURSIVE ValidateFrom(_, _, _)
ValidateFrom(ds, i, st) ==
    IF i > Len(ds) \/ ~Running(st) THEN st
    ELSE ValidateFrom(ds, i + 1, ValidateDebt(ds[i], i, st))

\* The outcome: the exception raised, or "" and the returned list.
ValidateDebtPortfolio(ds) ==
    IF ds = <<>>
    THEN [raised |-> "", errors |-> <<Error(0, "At least one debt is required")>>]
    ELSE LET st == ValidateFrom(ds, 1,
                      [errors |->
                           IF Len(ds) > MaxPortfolioSize
                           THEN <<Error(0, "Maximum 10 debts supported for performance requirements")>>
                           ELSE <<>>,
                       balance_bound |-> FALSE, balance |-> 0, raised |-> ""])
         IN [raised |-> st.raised, errors |-> st.errors]

-----------------------------------------------------------------------------
(* handle_edge_cases.  The dictionaries of the list are updated in place   *)
(* and the kept ones are appended to the returned list.                    *)

\* if debt.get('balance', 0) <= 0: continue
SkipsNegativeOnly(balance) == balance < 0

SkipsDebt(balance) == balance <= 0

\* if min_payment > balance: debt['minimum_payment'] = float(balance)
CapMinimumPayment(debt, st) ==
    IF debt.minimum_payment.kind = "absent" THEN Raise(st, "KeyError")
    ELSE IF debt.minimum_payment.kind = "text" THEN Raise(st, "InvalidOperation")
    ELSE IF debt.minimum_payment.value > debt.balance.value
         THEN [st EXCEPT !.debt.minimum_payment = RawNumber(debt.balance.value)]
         ELSE st

\* the two tests on debt.get('interest_rate', 0)
ClampInterestRate(debt, st) ==
    IF ~Running(st) \/ debt.interest_rate.kind = "absent" THEN st
    ELSE IF debt.interest_rate.kind = "text" THEN Raise(st, "TypeError")
    ELSE IF debt.interest_rate.value > 100
         THEN [st EXCEPT !.debt.interest_rate = RawNumber(100)]
    ELSE IF debt.interest_rate.value < 0
         THEN [st EXCEPT !.debt.interest_rate = RawNumber(0)]
         ELSE st

\* the test on debt.get('due_date', 1)
DefaultDueDate(debt, st) ==
    IF ~Running(st) \/ debt.due_date.kind = "absent" THEN st
    ELSE IF debt.due_date.kind = "text" THEN Raise(st, "TypeError")
    ELSE IF debt.due_date.value < 1 \/ debt.due_date.value > 31
         THEN [st EXCEPT !.debt.due_date = RawNumber(1)]
         ELSE st

\* One pass of the loop: what becomes of the dictionary, whether it is
\* appended, and the exception raised, if any.
HandleDebt(debt) ==
    LET st == [raised |-> "", kept |-> FALSE, debt |-> debt]
    IN IF debt.balance.kind = "absent" THEN st
       ELSE IF debt.balance.kind = "text" THEN Raise(st, "TypeError")
       ELSE IF SkipsDebt(debt.balance.value) THEN st
       ELSE LET done == DefaultDueDate(debt,
                            ClampInterestRate(debt, CapMinimumPayment(debt, st)))
            IN [done EXCEPT !.kept = Running(done)]

RECURSIVE HandleFrom(_, _, _)
HandleFrom(ds, i, acc) ==
    IF i > Len(ds) \/ ~Running(acc) THEN acc
    ELSE LET one == HandleDebt(ds[i])
         IN HandleFrom(ds, i + 1,
                [raised |-> one.raised,
                 debts |-> IF one.kept THEN Append(acc.debts, one.debt) ELSE acc.debts,
                 raw |-> [acc.raw EXCEPT ![i] = one.debt]])

HandleEdgeCases(ds) == HandleFrom(ds, 1, [raised |-> "", debts |-> <<>>, raw |-> ds])

-----------------------------------------------------------------------------
(* A caller of the two functions: validation, then the sanitizer when no   *)
(* error came back (main.py), or either function alone.                    *)

IntakeInit ==
    /\ raw_debts \in RawPortfolios
    /\ validation = None
    /\ cleaned_debts = None
    /\ intake_pc = "call"

Validate ==
    /\ intake_pc = "call"
    /\ validation' = ValidateDebtPortfolio(raw_debts)
    /\ intake_pc' = "validated"
    /\ UNCHANGED <<raw_debts, cleaned_debts>>
    /\ UNCHANGED engine_vars
    /\ UNCHANGED slip_vars
    /\ UNCHANGED plan_vars
    /\ UNCHANGED thread_vars

Sanitize ==
    /\ \/ intake_pc = "call"
       \/ /\ intake_pc = "validated"
          /\ validation.raised = ""
          /\ validation.errors = <<>>
    /\ cleaned_debts' =
          [raised |-> HandleEdgeCases(raw_debts).raised,
           debts |-> HandleEdgeCases(raw_debts).debts]
    /\ raw_debts' = HandleEdgeCases(raw_debts).raw
    /\ intake_pc' = "cleaned"
    /\ UNCHANGED validation
    /\ UNCHANGED engine_vars
    /\ UNCHANGED slip_vars
    /\ UNCHANGED plan_vars
    /\ UNCHANGED thread_vars

IntakeNext == Validate \/ Sanitize

IntakeSpecInit == IntakeInit /\ EngineIdle /\ SlipIdle /\ PlanIdle /\ ThreadsIdle

IntakeSpec == IntakeSpecInit /\ [][IntakeNext]_vars

-----------------------------------------------------------------------------
(* POST /plan (main.py, calculate_payoff_plan).  The request body has      *)
(* passed the PayoffPlanRequest schema: 1 to 10 debts, each with a name of *)
(* at least one character, balance >= 0, rate in [0, 100], minimum payment *)
(* >= 0 and due day in 1..31, and extra_payment >= 0.  The handler's body  *)
(* is one try block whose except clause catches every Exception.           *)

MaxRequestDebts == 2

Strategies == {"snowball", "avalanche", "compare"}

RequestStrategies == Strategies \cup {"invalid_strategy"}

RequestName(i) == {RawName(NameOf(i)), RawName("  ")}

RequestDebts(i) ==
    [name : RequestName(i),
     balance : {RawNumber(0), RawNumber(10000), RawNumber(30000)},
     interest_rate : {RawNumber(0), RawNumber(12)},
     minimum_payment : {RawNumber(6000), RawNumber(40000)},
     due_date : {RawNumber(15)}]

RequestPortfolios ==
    UNION { {ds \in [1..n -> UNION {RequestDebts(i) : i \in 1..n}] :
                \A i \in 1..n : ds[i] \in RequestDebts(i)} :
            n \in 1..MaxRequestDebts }

Requests ==
    [debts : RequestPortfolios, strategy : RequestStrategies,
     extra_payment : ExtraPayments]

HTTPException(status_code, detail) == [status_code |-> status_code, detail |-> detail]

\* except Exception as e: raise HTTPException(status_code=500, ...); an
\* HTTPException raised inside the try block is an Exception too.
ExceptException(e) == HTTPException(500, "Calculation error")

\* return result
Returned == [status_code |-> 200, detail |-> "result"]

\* Debt(**debt_data)
DebtObject(d) ==
    [id |-> NoId, name |-> d.name.text, balance |-> d.balance.value,
     interest_rate |-> d.interest_rate.value,
     minimum_payment |-> d.minimum_payment.value, due_date |-> d.due_date.value]

PlanInit ==
    /\ request \in Requests
    /\ response = None
    /\ plan_pc = "handler"

\* debt_dicts = [debt.dict() ...]; validate_debt_portfolio(debt_dicts); with
\* errors, the HTTPException(400) raised in the try block reaches the except
\* clause.
PlanValidate ==
    /\ plan_pc = "handler"
    /\ intake_pc = "idle"
    /\ raw_debts' = request.debts
    /\ validation' = ValidateDebtPortfolio(request.debts)
    /\ intake_pc' = "validated"
    /\ IF validation'.raised # ""
       THEN /\ response' = ExceptException(validation'.raised)
            /\ plan_pc' = "responded"
       ELSE IF validation'.errors # <<>>
       THEN /\ response' = ExceptException(HTTPException(400, "errors"))
            /\ plan_pc' = "responded"
       ELSE UNCHANGED <<response, plan_pc>>
    /\ UNCHANGED <<cleaned_debts, request>>
    /\ UNCHANGED engine_vars
    /\ UNCHANGED slip_vars
    /\ UNCHANGED thread_vars

\* cleaned_debts = handle_edge_cases(debt_dicts)
PlanSanitize ==
    /\ plan_pc = "handler"
    /\ intake_pc = "validated"
    /\ Sanitize

\* The Debt objects and PayoffCalculator(extra_payment=request.extra_payment)
PlanBuild ==
    /\ plan_pc = "handler"
    /\ intake_pc = "cleaned"
    /\ pc = "idle"
    /\ debts' = [k \in 1..Len(cleaned_debts.debts) |-> DebtObject(cleaned_debts.debts[k])]
    /\ extra_payment' = request.extra_payment
    /\ pc' = "call"
    /\ UNCHANGED <<strategy, sorted_debts, working_debts, total_available, month,
                   schedule_len, month_data, prev_remaining, start_balances,
                   after_interest, after_minimums, remaining_payment,
                   total_interest_paid, total_payments, payoff_timeline, result,
                   clock, current_date, kept_results, comparison>>
    /\ UNCHANGED slip_vars
    /\ UNCHANGED intake_vars
    /\ UNCHANGED plan_vars
    /\ UNCHANGED thread_vars

\* request.strategy == "snowball", and the first call of compare_strategies
PlanSnowball ==
    /\ plan_pc = "handler"
    /\ request.strategy \in {"snowball", "compare"}
    /\ CalculateSnowball

\* request.strategy == "avalanche"
PlanAvalanche ==
    /\ plan_pc = "handler"
    /\ request.strategy = "avalanche"
    /\ CalculateAvalanche

PlanCompareRunAvalanche ==
    /\ plan_pc = "handler"
    /\ request.strategy = "compare"
    /\ CompareRunAvalanche

PlanCompareStrategies ==
    /\ plan_pc = "handler"
    /\ request.strategy = "compare"
    /\ CompareStrategies

\* else: raise HTTPException(status_code=400, detail="Invalid strategy...")
\* inside the try block.
PlanInvalidStrategy ==
    /\ plan_pc = "handler"
    /\ pc = "call"
    /\ request.strategy \notin Strategies
    /\ response' = ExceptException(HTTPException(400, "Invalid strategy"))
    /\ plan_pc' = "responded"
    /\ UNCHANGED request
    /\ UNCHANGED engine_vars
    /\ UNCHANGED slip_vars
    /\ UNCHANGED intake_vars
    /\ UNCHANGED thread_vars

\* return result
PlanReturn ==
    /\ plan_pc = "handler"
    /\ \/ pc = "done" /\ request.strategy \in {"snowball", "avalanche"}
       \/ pc = "compared"
    /\ response' = Returned
    /\ plan_pc' = "responded"
    /\ UNCHANGED request
    /\ UNCHANGED engine_vars
    /\ UNCHANGED slip_vars
    /\ UNCHANGED intake_vars
    /\ UNCHANGED thread_vars

PlanNext ==
    PlanValidate \/ PlanSanitize \/ PlanBuild \/ PlanSnowball \/ PlanAvalanche
        \/ MonthStep \/ Summarize \/ PlanCompareRunAvalanche
        \/ PlanCompareStrategies \/ PlanInvalidStrategy \/ PlanReturn

PlanSpecInit == PlanInit /\ EngineIdle /\ SlipIdle /\ IntakeIdle /\ ThreadsIdle

PlanSpec == PlanSpecInit /\ [][PlanNext]_vars

-----------------------------------------------------------------------------
(* Concurrent callers: several calls of calculate_snowball or              *)
(* calculate_avalanche on one PayoffCalculator and one debt list, their    *)
(* monthly steps interleaved.  A call's locals are its own; the list       *)
(* objects live in a heap, working_sets, and a call holds a reference.     *)
(* The caller's list (debts) and self.extra_payment are the shared data.   *)

Threads == {1, 2}

\* All calls made to work on the list created by the first one.
ShareWorkingList(t) == 1

\* working_debts = []: a new list object per call.
AllocateWorkingList(t) == t

\* The working copies built from the Debt objects.
WorkingCopies(ordered) ==
    [i \in 1..Len(ordered) |->
        [id |-> ordered[i].id, name |-> ordered[i].name,
         balance |-> ordered[i].balance,
         interest_rate |-> ordered[i].interest_rate,
         minimum_payment |-> ordered[i].minimum_payment,
         due_date |-> ordered[i].due_date]]

NotCalled ==
    [pc |-> "call", strategy |-> None, sorted_debts |-> <<>>, ref |-> 0,
     total_available |-> 0, month |-> 0, current_date |-> 0, schedule |-> <<>>,
     total_interest_paid |-> 0, result |-> <<>>]

\* The locals at the top of the while loop.
LocalsAtEntry(ordered, tag, ref, extra, now) ==
    [pc |-> "loop", strategy |-> tag, sorted_debts |-> ordered, ref |-> ref,
     total_available |->
         SumSeq([i \in 1..Len(ordered) |-> ordered[i].minimum_payment]) + extra,
     month |-> 1, current_date |-> now, schedule |-> <<>>,
     total_interest_paid |-> 0, result |-> <<>>]

\* One pass of the while loop on the locals l and the working list wd.
LoopPass(l, wd) ==
    LET wd1 == AccrueInterest(wd)
        interest == TotalInterestCharge(wd)
        wd2 == PayMinimums(wd1)
        remaining == l.total_available - TotalMinimumsPaid(wd1)
        wd3 == ApplyExtra(wd2, remaining)
        snapshot ==
            [month |-> l.month, date |-> l.current_date,
             payments |-> UpdateRecord(MinimumRecords(wd1), wd2, remaining),
             total_payment |-> TotalMinimumsPaid(wd1) + ExtraApplied(wd2, remaining),
             total_interest |-> interest,
             remaining_balances |-> RemainingBalances(wd3)]
    IN [working |-> wd3,
        locals |->
            [l EXCEPT !.schedule = Append(@, snapshot),
                      !.total_interest_paid = @ + interest,
                      !.month = @ + 1,
                      !.current_date = @ + 1,
                      !.pc = IF SafetyBreak(l.month + 1) THEN "break" ELSE "loop"]]

\* The first month of the schedule in which the name is recorded at 0, 0
\* when there is none.
FirstZeroMonth(schedule, name) ==
    IF \E m \in 1..Len(schedule) : schedule[m].remaining_balances[name] = 0
    THEN CHOOSE m \in 1..Len(schedule) :
            /\ schedule[m].remaining_balances[name] = 0
            /\ \A k \in 1..(m - 1) : schedule[k].remaining_balances[name] # 0
    ELSE 0

\* The dictionary returned after the loop.
ResultOf(l) ==
    [strategy |-> l.strategy,
     total_months |-> Len(l.schedule),
     total_payments |->
         SumSeq([m \in 1..Len(l.schedule) |-> l.schedule[m].total_payment]),
     total_interest |-> l.total_interest_paid,
     payoff_timeline |->
         [name \in {n \in Names(l.sorted_debts) : FirstZeroMonth(l.schedule, n) # 0}
             |-> [month |-> FirstZeroMonth(l.schedule, name),
                  date |-> l.schedule[FirstZeroMonth(l.schedule, name)].date]],
     monthly_schedule |-> l.schedule,
     total_debt |->
         SumSeq([i \in 1..Len(l.sorted_debts) |-> l.sorted_debts[i].balance]),
     completion_date |->
         IF l.schedule # <<>> THEN <<l.schedule[Len(l.schedule)].date>> ELSE <<>>]

StrategyOrder(ds, tag) ==
    IF tag = "snowball" THEN SnowballOrder(ds) ELSE AvalancheOrder(ds)

\* Shapes whose runs end within a few months.
ConcurrentPortfolios ==
    {ds \in UNION {PortfoliosOfSize(n) : n \in 1..MaxDebts} :
        \A i \in 1..Len(ds) : ds[i].minimum_payment >= 6000 /\ ds[i].id = i}

\* Call with these locals and this working list, run to its return.
RECURSIVE LoopAlone(_, _)
LoopAlone(l, wd) ==
    IF l.pc = "loop" /\ AnyBalance(wd)
    THEN LoopAlone(LoopPass(l, wd).locals, LoopPass(l, wd).working)
    ELSE ResultOf(l)

\* The result of one call with nothing else running.
RunAlone(ds, extra, tag, now) ==
    LoopAlone(LocalsAtEntry(StrategyOrder(ds, tag), tag, 0, extra, now),
              WorkingCopies(StrategyOrder(ds, tag)))

\* One PayoffCalculator(extra_payment) and one debt list, no call made yet.
ConcurrentInit ==
    /\ debts \in ConcurrentPortfolios
    /\ extra_payment \in ExtraPayments
    /\ strategy = None
    /\ sorted_debts = <<>>
    /\ working_debts = <<>>
    /\ total_available = 0
    /\ month = 0
    /\ schedule_len = 0
    /\ month_data = NoMonth
    /\ prev_remaining = <<>>
    /\ start_balances = <<>>
    /\ after_interest = <<>>
    /\ after_minimums = <<>>
    /\ remaining_payment = 0
    /\ total_interest_paid = 0
    /\ total_payments = 0
    /\ payoff_timeline = <<>>
    /\ result = None
    /\ pc = "idle"
    /\ clock = 0
    /\ current_date = 0
    /\ kept_results = <<>>
    /\ comparison = None
    /\ threads = [t \in Threads |-> NotCalled]
    /\ working_sets = [r \in Threads |-> <<>>]

\* calculate_snowball / calculate_avalanche entered by call t: the sort, the
\* working copies in a list of the call's own, the locals.
ThreadEnter(t, tag) ==
    /\ threads[t].pc = "call"
    /\ LET ordered == StrategyOrder(debts, tag)
           ref == AllocateWorkingList(t)
       IN /\ working_sets' = [working_sets EXCEPT ![ref] = WorkingCopies(ordered)]
          /\ threads' = [threads EXCEPT
                            ![t] = LocalsAtEntry(ordered, tag, ref, extra_payment, clock)]
    /\ UNCHANGED engine_vars
    /\ UNCHANGED slip_vars
    /\ UNCHANGED intake_vars
    /\ UNCHANGED plan_vars

\* One month of call t, on the list it holds.
ThreadMonth(t) ==
    /\ threads[t].pc = "loop"
    /\ AnyBalance(working_sets[threads[t].ref])
    /\ LET pass == LoopPass(threads[t], working_sets[threads[t].ref])
       IN /\ working_sets' = [working_sets EXCEPT ![threads[t].ref] = pass.working]
          /\ threads' = [threads EXCEPT ![t] = pass.locals]
    /\ UNCHANGED engine_vars
    /\ UNCHANGED slip_vars
    /\ UNCHANGED intake_vars
    /\ UNCHANGED plan_vars

\* Call t leaves the loop and returns.
ThreadReturn(t) ==
    /\ \/ threads[t].pc = "break"
       \/ threads[t].pc = "loop" /\ ~AnyBalance(working_sets[threads[t].ref])
    /\ threads' = [threads EXCEPT ![t].result = <<ResultOf(threads[t])>>,
                                  ![t].pc = "done"]
    /\ UNCHANGED working_sets
    /\ UNCHANGED engine_vars
    /\ UNCHANGED slip_vars
    /\ UNCHANGED intake_vars
    /\ UNCHANGED plan_vars

ConcurrentNext ==
    \E t \in Threads :
        \/ ThreadEnter(t, "snowball")
        \/ ThreadEnter(t, "avalanche")
        \/ ThreadMonth(t)
        \/ ThreadReturn(t)

ConcurrentSpecInit == ConcurrentInit /\ SlipIdle /\ IntakeIdle /\ PlanIdle

ConcurrentSpec == ConcurrentSpecInit /\ [][ConcurrentNext]_vars

-----------------------------------------------------------------------------
(* What a month did, read off the balances kept at each step.              *)

NumDebts == Len(working_debts)

MonthRecorded == schedule_len > 0

\* Sum of the original minimum payments + extra_payment.
OriginalAvailable ==
    SumSeq([i \in 1..Len(debts) |-> debts[i].minimum_payment]) + extra_payment

InterestAdded(i) == after_interest[i] - start_balances[i]

MinimumPaid(i) == after_interest[i] - after_minimums[i]

ExtraReceived(i) == after_minimums[i] - working_debts[i].balance

SurplusOfMonth ==
    OriginalAvailable - SumSeq([i \in 1..NumDebts |-> MinimumPaid(i)])

\* First debt in strategy order still owing after the minimums, 0 when none.
Recipient ==
    IF \E i \in 1..NumDebts : after_minimums[i] > 0
    THEN CHOOSE i \in 1..NumDebts :
            /\ after_minimums[i] > 0
            /\ \A j \in 1..(i - 1) : after_minimums[j] <= 0
    ELSE 0

\* The payment record appended for debt i: records are appended in list
\* order, one per debt that owed something after interest.
RecordPosition(i) == Cardinality({j \in 1..i : after_interest[j] > 0})

RecordOf(i) == month_data.payments[RecordPosition(i)]

RecordedRemaining(i) == month_data.remaining_balances[working_debts[i].name]

-----------------------------------------------------------------------------
(* C1: in every simulated month the surplus (original minimums + extra,    *)
(* minus the minimums actually paid) goes only to the first debt in        *)
(* strategy order still owing after the minimums, capped at its balance;   *)
(* every other debt gets its minimum and nothing more, also when the       *)
(* surplus exceeds the recipient's balance.                                *)
C1_SurplusToOneDebt ==
    MonthRecorded =>
        \A i \in 1..NumDebts :
            ExtraReceived(i) =
                IF SurplusOfMonth > 0 /\ i = Recipient
                THEN Min(SurplusOfMonth, after_minimums[i])
                ELSE 0

C1_Witness ==
    /\ MonthRecorded
    /\ Recipient # 0
    /\ SurplusOfMonth > after_minimums[Recipient]
    /\ \E i \in 1..NumDebts : i # Recipient /\ working_debts[i].balance > 0

(* C2: for every debt owing at the start of a month, interest =            *)
(* balance * rate / 100 / 12 is added before any payment, and the balance  *)
(* recorded for the debt in the snapshot is its previous balance plus that *)
(* interest minus the payment recorded for that same debt, for every       *)
(* portfolio, debts without id included.                                   *)
C2_RecordedBalanceEquation ==
    MonthRecorded =>
        \A i \in 1..NumDebts :
            start_balances[i] > 0 =>
                LET interest ==
                        (start_balances[i] * sorted_debts[i].interest_rate) \div 1200
                IN /\ after_interest[i] = start_balances[i] + interest
                   /\ RecordedRemaining(i) =
                          start_balances[i] + interest - RecordOf(i).payment

\* The same equation on portfolios whose debts carry distinct ids and names.
DistinctIdentities ==
    \A i, j \in 1..Len(debts) :
        i # j => debts[i].id # debts[j].id /\ debts[i].name # debts[j].name

\* The same equation on portfolios without ids whose names are distinct.
DistinctNames ==
    \A i, j \in 1..Len(debts) : i # j => debts[i].name # debts[j].name

C2_EquationWithDistinctNames ==
    DistinctNames => C2_RecordedBalanceEquation

C2_EquationWithDistinctIdentities ==
    DistinctIdentities => C2_RecordedBalanceEquation

(* C3: no debt is overpaid or driven negative: every working balance is    *)
(* >= 0 at every step, every minimum payment applied is                    *)
(* min(minimum_payment, current balance), and the surplus applied to the   *)
(* priority debt is at most its balance.                                   *)
C3_NoOverpayment ==
    /\ \A i \in 1..NumDebts : working_debts[i].balance >= 0
    /\ MonthRecorded =>
          \A i \in 1..NumDebts :
              /\ after_interest[i] >= 0
              /\ after_minimums[i] >= 0
              /\ MinimumPaid(i) =
                    IF after_interest[i] > 0
                    THEN Min(sorted_debts[i].minimum_payment, after_interest[i])
                    ELSE 0
              /\ ExtraReceived(i) <= after_minimums[i]

C3_Witness ==
    /\ MonthRecorded
    /\ \E i \in 1..NumDebts :
          /\ after_interest[i] > 0
          /\ sorted_debts[i].minimum_payment > after_interest[i]
    /\ \E i \in 1..NumDebts :
          /\ ExtraReceived(i) > 0
          /\ ExtraReceived(i) = after_minimums[i]
          /\ SurplusOfMonth > after_minimums[i]

(* C4: the engine stops after at most 600 monthly iterations and returns;  *)
(* at the return every working balance is 0 or total_months is 600.        *)
C4_BoundedTermination ==
    /\ schedule_len <= SafetyLimit
    /\ pc = "loop" => month = schedule_len + 1 /\ month <= SafetyLimit
    /\ pc = "break" => schedule_len = SafetyLimit
    /\ pc \in {"call", "loop", "break", "done"}
    /\ pc \in {"call", "loop", "break"} => result = None
    /\ pc = "done" =>
          /\ result.total_months = schedule_len
          /\ \/ \A i \in 1..NumDebts : working_debts[i].balance = 0
             \/ result.total_months = SafetyLimit

C4_Witness ==
    /\ pc = "done"
    /\ result.total_months = SafetyLimit
    /\ AnyBalance(working_debts)

(* C5: in every snapshot total_payment is the sum of the payment fields of *)
(* the month's per-debt payment records, for both strategies.              *)
C5_TotalIsSumOfPayments ==
    month_data.total_payment =
        SumSeq([j \in 1..Len(month_data.payments) |-> month_data.payments[j].payment])

C5_Witness ==
    /\ MonthRecorded
    /\ Len(month_data.payments) >= 2
    /\ \E i \in 1..NumDebts : ExtraReceived(i) > 0
    /\ month_data.month >= 2

(* C6: in every payment record interest_portion is the interest accrued on *)
(* that debt in that month and principal_portion = payment -               *)
(* interest_portion (1000 at 12% with minimum 200: 10.00 and 190.00).      *)
C6_PortionsSplitPayment ==
    MonthRecorded =>
        \A i \in 1..NumDebts :
            after_interest[i] > 0 =>
                /\ RecordOf(i).interest_portion = InterestAdded(i)
                /\ RecordOf(i).principal_portion =
                      RecordOf(i).payment - RecordOf(i).interest_portion

-----------------------------------------------------------------------------
(* Claims about the slip detector, under SlipSpec.                         *)

Analyzed == slip_pc \in {"analyzed", "retried"}

SumOfMinimums ==
    SumSeq([i \in 1..Len(slip_debts) |-> slip_debts[i].minimum_payment])

\* The least positive multiple of $25 that is not below s.
LeastStepCovering(s) ==
    CHOOSE m \in {2500 * k : k \in 1..((s \div 2500) + 1)} :
        /\ m >= s
        /\ \A k \in 1..((s \div 2500) + 1) : 2500 * k >= s => m <= 2500 * k

C8_FeasibleIffCovered ==
    (Analyzed /\ monthly_budget > 0 /\ slip_debts # <<>>) =>
        /\ slip_result.is_feasible = (monthly_budget >= SumOfMinimums)
        /\ slip_result.is_feasible =>
              /\ slip_result.surplus = monthly_budget - SumOfMinimums
              /\ slip_result.shortfall = 0
              /\ slip_result.suggestion_amount = 0
              /\ slip_result.suggestion_text = <<>>
        /\ ~slip_result.is_feasible =>
              /\ slip_result.shortfall = SumOfMinimums - monthly_budget
              /\ slip_result.surplus = 0

C8_Witness ==
    /\ Analyzed
    /\ slip_debts # <<>>
    /\ monthly_budget > 0
    /\ monthly_budget = SumOfMinimums
    /\ slip_result.is_feasible
    /\ slip_result.surplus = 0

(* C9: with monthly_budget <= 0 the result is infeasible, has_slip, with   *)
(* shortfall 0, suggestion_amount 25, text 'Apply $25' and monthly_budget  *)
(* 0, for every debt list, the empty one included; only a positive budget  *)
(* with no debts gives the feasible 'no debts' result with surplus =       *)
(* budget.                                                                 *)
C9_ZeroBudgetFirst ==
    Analyzed =>
        /\ monthly_budget <= 0 =>
              /\ ~slip_result.is_feasible
              /\ slip_result.has_slip
              /\ slip_result.shortfall = 0
              /\ slip_result.suggestion_amount = 2500
              /\ slip_result.suggestion_text = <<"Apply $", 25>>
              /\ slip_result.monthly_budget = 0
        /\ slip_result.message = "No debts to analyze" <=>
              (monthly_budget > 0 /\ slip_debts = <<>>)
        /\ (monthly_budget > 0 /\ slip_debts = <<>>) =>
              /\ slip_result.is_feasible
              /\ slip_result.surplus = monthly_budget

C9_Witness ==
    /\ Analyzed
    /\ monthly_budget <= 0
    /\ slip_debts = <<>>
    /\ slip_result.has_slip

(* C10: whenever has_slip is reported, raising the monthly budget by the   *)
(* returned suggestion_amount makes the same debts feasible.               *)
C10_SuggestionEliminatesSlip ==
    slip_pc = "retried" => retry_result.is_feasible

(* C10 as amended: whenever has_slip is reported for a monthly_budget > 0, *)
(* raising the budget by the returned suggestion_amount makes the same     *)
(* debts feasible.                                                         *)
C10_SuggestionEliminatesSlipOfPositiveBudget ==
    (slip_pc = "retried" /\ monthly_budget > 0) => retry_result.is_feasible

C10_Witness ==
    /\ slip_pc = "retried"
    /\ monthly_budget > 0
    /\ slip_result.has_slip
    /\ slip_result.suggestion_amount > slip_result.shortfall
    /\ retry_result.is_feasible
    /\ retry_result.surplus > 0

-----------------------------------------------------------------------------
(* Claims about the strategy order, under Spec.                            *)

\* What validate_debt_portfolio accepts, on Debt objects.
ValidPortfolio(ds) ==
    /\ Len(ds) >= 1
    /\ Len(ds) <= 10
    /\ \A i \in 1..Len(ds) :
          /\ ds[i].balance > 0
          /\ ds[i].interest_rate >= 0
          /\ ds[i].interest_rate <= 100
          /\ ds[i].minimum_payment >= 0
          /\ ds[i].minimum_payment <= ds[i].balance

\* The sort key of the running strategy, smaller meaning earlier.
StrategyKey(d) ==
    IF strategy = "avalanche" THEN 0 - d.interest_rate ELSE d.balance

\* The debt of the working list the strategy names first: smallest initial
\* balance under snowball, highest initial rate under avalanche.
Target ==
    CHOOSE i \in 1..NumDebts :
        \A j \in 1..NumDebts : StrategyKey(sorted_debts[i]) <= StrategyKey(sorted_debts[j])

AnyKeyTie ==
    \E i, j \in 1..NumDebts :
        i # j /\ StrategyKey(sorted_debts[i]) = StrategyKey(sorted_debts[j])

TopKeyTie ==
    \E j \in 1..NumDebts :
        j # Target /\ StrategyKey(sorted_debts[j]) = StrategyKey(sorted_debts[Target])

\* The debts cleared in the month just recorded.
ClearedThisMonth ==
    {i \in 1..NumDebts : start_balances[i] > 0 /\ working_debts[i].balance = 0}

\* The month just recorded is the first in which a debt was cleared.
FirstPayoffMonth ==
    /\ MonthRecorded
    /\ \A i \in 1..NumDebts : start_balances[i] > 0
    /\ ClearedThisMonth # {}

(* C11: for every valid portfolio and every extra payment >= 0, the debt   *)
(* first fully paid off under snowball is the debt with the smallest       *)
(* initial balance and under avalanche the debt with the highest initial   *)
(* annual rate (portfolios with a tie in the sort key excluded).           *)
C11_FirstPaidOffIsFirstInOrder ==
    (ValidPortfolio(debts) /\ FirstPayoffMonth /\ ~AnyKeyTie) =>
        Target \in ClearedThisMonth

(* C11 as amended: for every valid portfolio and every extra payment >= 0, *)
(* as long as the debt with the smallest initial balance (snowball) or the *)
(* highest initial annual rate (avalanche) still owes, no other debt is    *)
(* paid more than its own minimum; so that debt is the first fully paid    *)
(* off unless another debt is cleared earlier by its minimum payments      *)
(* alone (portfolios with a tie for that first place excluded).            *)
C11_FirstInOrderUnlessClearedByMinimums ==
    (ValidPortfolio(debts) /\ MonthRecorded /\ ~TopKeyTie) =>
        /\ after_minimums[Target] > 0 =>
              \A i \in 1..NumDebts : i # Target => ExtraReceived(i) = 0
        /\ (FirstPayoffMonth /\ Target \notin ClearedThisMonth) =>
              \A i \in ClearedThisMonth :
                  /\ MinimumPaid(i) = after_interest[i]
                  /\ ExtraReceived(i) = 0

C11_Witness ==
    /\ ValidPortfolio(debts)
    /\ FirstPayoffMonth
    /\ NumDebts >= 2
    /\ ~TopKeyTie
    /\ ClearedThisMonth = {Target}
    /\ ExtraReceived(Target) > 0
    /\ debts[1] # sorted_debts[1]

\* The strategy has ordered the list.
Ordered == pc \in {"loop", "break", "done"}

(* C12: calculate_snowball processes the debts in ascending order of       *)
(* balance and calculate_avalanche in descending order of annual rate; in  *)
(* both, debts with equal keys keep their relative input order, and the    *)
(* ordered list is a permutation of the input.                             *)
C12_StableOrderedPermutation ==
    Ordered =>
        /\ Len(sorted_debts) = Len(debts)
        /\ \A i \in 1..(Len(sorted_debts) - 1) :
              IF strategy = "snowball"
              THEN sorted_debts[i].balance <= sorted_debts[i + 1].balance
              ELSE sorted_debts[i].interest_rate >= sorted_debts[i + 1].interest_rate
        /\ \E place \in Permutations(1..Len(debts)) :
              /\ \A i \in 1..Len(debts) : sorted_debts[i] = debts[place[i]]
              /\ \A i, j \in 1..Len(debts) :
                    (i < j /\ StrategyKey(sorted_debts[i]) = StrategyKey(sorted_debts[j]))
                        => place[i] < place[j]

C12_Witness ==
    /\ Ordered
    /\ strategy = "avalanche"
    /\ Len(debts) = 2
    /\ debts[1].interest_rate = debts[2].interest_rate
    /\ debts[1].balance > debts[2].balance
    /\ sorted_debts = debts

\* The largest month of a returned payoff timeline, 0 when it is empty.
LatestPayoffMonth(timeline) ==
    IF DOMAIN timeline = {} THEN 0
    ELSE CHOOSE m \in {timeline[n].month : n \in DOMAIN timeline} :
            \A n \in DOMAIN timeline : timeline[n].month <= m

(* C16: payoff_timeline maps each debt to the first month in which that    *)
(* debt's own working balance reached 0; a debt never paid off has no      *)
(* entry; when the run converges every input debt has an entry and the     *)
(* latest payoff month equals total_months; for every portfolio that       *)
(* passes validation, one in which two debts share a name included.        *)
C16_TimelineIsOwnPayoffMonth ==
    ValidPortfolio(debts) =>
        /\ MonthRecorded =>
              \A i \in 1..NumDebts :
                  /\ (start_balances[i] > 0 /\ working_debts[i].balance = 0) =>
                        payoff_timeline[working_debts[i].name] = month_data.month
                  /\ working_debts[i].balance > 0 =>
                        payoff_timeline[working_debts[i].name] = 0
        /\ pc = "done" =>
              /\ \A i \in 1..NumDebts :
                    IF working_debts[i].balance > 0
                    THEN working_debts[i].name \notin DOMAIN result.payoff_timeline
                    ELSE /\ working_debts[i].name \in DOMAIN result.payoff_timeline
                         /\ result.payoff_timeline[working_debts[i].name].month =
                               payoff_timeline[working_debts[i].name]
              /\ ~AnyBalance(working_debts) =>
                    LatestPayoffMonth(result.payoff_timeline) = result.total_months

\* The same statement on portfolios whose names are distinct.
C16_TimelineWithDistinctNames ==
    DistinctNames => C16_TimelineIsOwnPayoffMonth

\* A snapshot and the one before it are at hand.
TwoSnapshots == schedule_len >= 2

\* The debt whose balance a snapshot records under a name.
RecordedDebt(name) == LastIndexOfName(working_debts, name)

\* One month's interest on what debt i owed when the month began.
InterestDue(i) ==
    IF start_balances[i] > 0
    THEN (start_balances[i] * sorted_debts[i].interest_rate) \div 1200
    ELSE 0

PaymentApplied(i) == MinimumPaid(i) + ExtraReceived(i)

(* C17: for every portfolio that passes validation and sanitization, each  *)
(* debt's remaining balance recorded in consecutive snapshots never        *)
(* increases from one month to the next.                                   *)
C17_RecordedBalanceNeverIncreases ==
    (ValidPortfolio(debts) /\ TwoSnapshots) =>
        \A name \in DOMAIN month_data.remaining_balances :
            month_data.remaining_balances[name] <= prev_remaining[name]

(* C17 as amended: for every portfolio that passes validation and          *)
(* sanitization, a remaining balance recorded in consecutive snapshots     *)
(* does not increase from one month to the next provided the payment       *)
(* applied in that month to the debt whose balance is recorded is at least *)
(* the interest charged on it.                                             *)
C17_NoIncreaseWhenPaymentCoversInterest ==
    (ValidPortfolio(debts) /\ TwoSnapshots) =>
        \A name \in DOMAIN month_data.remaining_balances :
            PaymentApplied(RecordedDebt(name)) >= InterestDue(RecordedDebt(name)) =>
                month_data.remaining_balances[name] <= prev_remaining[name]

C17_Witness ==
    /\ ValidPortfolio(debts)
    /\ TwoSnapshots
    /\ \E name \in DOMAIN month_data.remaining_balances :
          /\ InterestDue(RecordedDebt(name)) > 0
          /\ PaymentApplied(RecordedDebt(name)) > InterestDue(RecordedDebt(name))
          /\ month_data.remaining_balances[name] < prev_remaining[name]
          /\ month_data.remaining_balances[name] > 0

-----------------------------------------------------------------------------
(* Claims about compare_strategies, under CompareSpec.                     *)

InterestDifferences ==
    {0 - 20000, 0, 9999, 10000, 10001, 49999, 50000, 50001, 1000000}

TimeDifferences == {0 - 10, 0 - 4, 0 - 3, 0 - 2, 0, 3, 20}

\* The strategy a recommendation text argues for.
AvalancheTexts ==
    {"Avalanche saves $(1) in interest over (2) months - significant financial benefit",
     "Avalanche saves $(1) in interest with similar timeline - moderate financial benefit"}

ArguedStrategy(reason) ==
    IF reason.text \in AvalancheTexts THEN "avalanche" ELSE "snowball"

\* The policy table, first match wins.
PolicyRow(d, t) ==
    IF d > 50000
    THEN [recommended |-> "avalanche",
          text |-> "Avalanche saves $(1) in interest over (2) months - significant financial benefit",
          values |-> <<d, t>>]
    ELSE IF d > 10000
    THEN [recommended |-> "avalanche",
          text |-> "Avalanche saves $(1) in interest with similar timeline - moderate financial benefit",
          values |-> <<d>>]
    ELSE IF t < 0 - 3
    THEN [recommended |-> "snowball",
          text |-> "Snowball completes (1) months faster - psychological momentum may improve success rate",
          values |-> <<0 - t>>]
    ELSE [recommended |-> "snowball",
          text |-> "Both strategies have similar outcomes; choose based on personal motivation style",
          values |-> <<>>]

FollowsPolicy(d, t, recommended, reason) ==
    /\ recommended = PolicyRow(d, t).recommended
    /\ reason.text = PolicyRow(d, t).text
    /\ reason.values = PolicyRow(d, t).values
    /\ ArguedStrategy(reason) = recommended

WorkingSetOfCallerList ==
    /\ Len(working_debts) = Len(debts)
    /\ \E place \in Permutations(1..Len(debts)) :
          \A i \in 1..Len(debts) : working_debts[i] = debts[place[i]]

(* C14: calculate_snowball, calculate_avalanche and compare_strategies     *)
(* leave the caller-supplied debt list and every debt record in it         *)
(* unchanged (same order, balance, rate and minimum payment); balances are *)
(* updated on a working set created at entry, and the two runs inside      *)
(* compare_strategies each start from the original balances.               *)
C14_CallerListUnchanged ==
    [][/\ debts' = debts
       /\ (pc' = "loop" /\ schedule_len' = 0) => WorkingSetOfCallerList'
       /\ pc = "loop" => sorted_debts' = sorted_debts]_vars

C14_Witness ==
    /\ kept_results # <<>>
    /\ strategy = "avalanche"
    /\ pc = "loop"
    /\ schedule_len >= 1
    /\ BalancesOf(working_debts) # BalancesOf(sorted_debts)
    /\ sorted_debts # debts
    /\ kept_results[1].total_months >= 1

-----------------------------------------------------------------------------
(* Claims about repeated runs, under RepeatSpec.                           *)

RanTwice == pc = "done" /\ kept_results # <<>>

(* C15: running the same strategy twice on identical input with the same   *)
(* extra payment yields identical results: the same schedule, totals,      *)
(* payoff timeline and calendar labels, whatever happens between the two   *)
(* runs.                                                                   *)
C15_RepeatedRunIdentical ==
    RanTwice => result = kept_results[1]

\* The two results with the calendar labels left out.
WithoutLabels(r) ==
    [strategy |-> r.strategy, total_months |-> r.total_months,
     total_payments |-> r.total_payments, total_interest |-> r.total_interest,
     total_debt |-> r.total_debt,
     payoff_months |->
         [name \in DOMAIN r.payoff_timeline |-> r.payoff_timeline[name].month]]

C15_IdenticalButForLabels ==
    RanTwice => WithoutLabels(result) = WithoutLabels(kept_results[1])

-----------------------------------------------------------------------------
(* Claims about validation and the sanitizer, under IntakeSpec.            *)

Validated == intake_pc = "validated"

IsNumber(field) == field.kind = "number"

\* What the validator is to accept.
AcceptableDebt(d) ==
    /\ d.name.kind = "text"
    /\ ~Blank(d.name.text)
    /\ IsNumber(d.balance)
    /\ d.balance.value > 0
    /\ IsNumber(d.interest_rate)
    /\ d.interest_rate.value >= 0
    /\ d.interest_rate.value <= 100
    /\ IsNumber(d.minimum_payment)
    /\ d.minimum_payment.value >= 0
    /\ d.minimum_payment.value <= d.balance.value

AcceptablePortfolio(ds) ==
    /\ Len(ds) >= 1
    /\ Len(ds) <= 10
    /\ \A i \in 1..Len(ds) : AcceptableDebt(ds[i])

ReturnsNoError == validation.raised = "" /\ validation.errors = <<>>

HasError(i, text) ==
    \E k \in 1..Len(validation.errors) : validation.errors[k] = Error(i, text)

\* The call returned a list.
C19_NeverRaises == Validated => validation.raised = ""

\* 'Minimum payment exceeds balance' is reported for a debt exactly when its
\* minimum payment is a number >= 0 above its own numeric balance.
C19_CheckedAgainstOwnBalance ==
    (Validated /\ validation.raised = "") =>
        \A i \in 1..Len(raw_debts) :
            HasError(i, "Minimum payment exceeds balance") <=>
                /\ IsNumber(raw_debts[i].minimum_payment)
                /\ raw_debts[i].minimum_payment.value >= 0
                /\ IsNumber(raw_debts[i].balance)
                /\ raw_debts[i].minimum_payment.value > raw_debts[i].balance.value

(* C19: validate_debt_portfolio never raises: for any list of raw debt     *)
(* dictionaries, debts with a missing required field or a non-numeric      *)
(* balance, rate or minimum payment included, it returns a list of error   *)
(* strings, and each debt's minimum-payment check is made against that     *)
(* debt's own balance.                                                     *)
C19_ReturnsErrorsNeverRaises ==
    C19_NeverRaises /\ C19_CheckedAgainstOwnBalance

\* A dictionary with every amount and the due day given as a number.
WellFormed(d) ==
    /\ IsNumber(d.balance)
    /\ IsNumber(d.interest_rate)
    /\ IsNumber(d.minimum_payment)
    /\ IsNumber(d.due_date)

WellFormedList(ds) == \A i \in 1..Len(ds) : WellFormed(ds[i])

StillOwed(d) == d.balance.value > 0

\* The debt as the sanitizer is to return it.
Normalized(d) ==
    [d EXCEPT
        !.minimum_payment = RawNumber(Min(d.minimum_payment.value, d.balance.value)),
        !.interest_rate = RawNumber(Max(0, Min(100, d.interest_rate.value))),
        !.due_date = RawNumber(IF d.due_date.value \in 1..31
                               THEN d.due_date.value ELSE 1)]

ExpectedCleaned(ds) ==
    LET owed == SelectSeq(ds, StillOwed)
    IN [k \in 1..Len(owed) |-> Normalized(owed[k])]

-----------------------------------------------------------------------------
(* Claims about the sanitizer's argument, under IntakeSpec.                *)

SanitizerReturns == intake_pc # "cleaned" /\ intake_pc' = "cleaned"

(* C21: handle_edge_cases is pure with respect to its argument: after the  *)
(* call every raw debt record supplied by the caller has the same          *)
(* minimum_payment, interest_rate and due_date as before the call, and the *)
(* normalized values appear only in the returned list.                     *)
C21_ArgumentUntouched ==
    [][SanitizerReturns =>
          \A i \in 1..Len(raw_debts) :
              /\ raw_debts'[i].minimum_payment = raw_debts[i].minimum_payment
              /\ raw_debts'[i].interest_rate = raw_debts[i].interest_rate
              /\ raw_debts'[i].due_date = raw_debts[i].due_date]_vars

\* What the call does leave alone: the list's length, and the name and the
\* balance of every record.
C21_NamesAndBalancesUntouched ==
    [][SanitizerReturns =>
          /\ Len(raw_debts') = Len(raw_debts)
          /\ \A i \in 1..Len(raw_debts) :
                /\ raw_debts'[i].name = raw_debts[i].name
                /\ raw_debts'[i].balance = raw_debts[i].balance]_vars

-----------------------------------------------------------------------------
(* Claims about POST /plan, under PlanSpec.                                *)

Responded == plan_pc = "responded"

ValidationFailed == intake_pc = "validated" /\ validation.errors # <<>>

SanitizerRan == intake_pc = "cleaned"

EngineRan == pc \in {"loop", "break", "done", "compared"}

(* C22: the /plan endpoint answers with HTTP 400 when                      *)
(* validate_debt_portfolio returns errors (the body carrying the error     *)
(* list, with neither the sanitizer nor the engine run) and with HTTP 400  *)
(* and an 'Invalid strategy' detail when the strategy is none of snowball, *)
(* avalanche or compare; a successful calculation is the only path that    *)
(* runs validation, then sanitization, then the engine, in that order.     *)
C22_ErrorsAnsweredWith400 ==
    Responded =>
        /\ ValidationFailed =>
              /\ response = HTTPException(400, "errors")
              /\ ~SanitizerRan
              /\ ~EngineRan
        /\ (~ValidationFailed /\ request.strategy \notin Strategies) =>
              response = HTTPException(400, "Invalid strategy")
        /\ (SanitizerRan /\ EngineRan) <=> response = Returned

\* What the handler does on these paths: the stages run in order, the
\* engine only for a known strategy, and both failures leave as HTTP 500.
C22_StagesInOrderErrorsAs500 ==
    /\ SanitizerRan => validation.errors = <<>>
    /\ EngineRan => SanitizerRan /\ request.strategy \in Strategies
    /\ Responded =>
          /\ ValidationFailed => response.status_code = 500 /\ ~EngineRan
          /\ (~ValidationFailed /\ request.strategy \notin Strategies) =>
                response.status_code = 500 /\ SanitizerRan /\ ~EngineRan
          /\ (SanitizerRan /\ EngineRan) <=> response = Returned

-----------------------------------------------------------------------------
(* Claims about concurrent calls, under ConcurrentSpec.                    *)

Called(t) == threads[t].pc # "call"

\* Every returned result is the result of the same call run alone, and no
\* two calls hold the same working list.
EachAsAlone ==
    /\ \A t \in Threads :
          threads[t].pc = "done" =>
              threads[t].result =
                  <<RunAlone(debts, extra_payment, threads[t].strategy, clock)>>
    /\ \A t, u \in Threads :
          (t # u /\ Called(t) /\ Called(u)) => threads[t].ref # threads[u].ref

\* A step of one call leaves the other calls' locals and working lists, the
\* caller's list and the calculator as they were.
StepsOwnStateOnly ==
    /\ debts' = debts
    /\ extra_payment' = extra_payment
    /\ \A t, u \in Threads :
          (t # u /\ threads'[t] # threads[t]) =>
              /\ threads'[u] = threads[u]
              /\ Called(u) =>
                    working_sets'[threads[u].ref] = working_sets[threads[u].ref]

(* C23: two simulations that run concurrently on the same caller-supplied  *)
(* debt list and the same PayoffCalculator, under any interleaving of      *)
(* their monthly steps, each return the result they return when run alone; *)
(* no step of one simulation reads or writes state written by the other.   *)
C23_ConcurrentRunsIsolated == []EachAsAlone /\ [][StepsOwnStateOnly]_vars

C23_Witness ==
    /\ threads[1].pc = "done"
    /\ threads[1].result[1].total_months >= 3
    /\ threads[2].pc = "loop"
    /\ threads[2].month >= 2
    /\ threads[2].strategy # threads[1].strategy
    /\ threads[2].sorted_debts # threads[1].sorted_debts
    /\ AnyBalance(working_sets[threads[2].ref])
    /\ working_sets[threads[1].ref] # working_sets[threads[2].ref]

-----------------------------------------------------------------------------
(* Claims about the final payment and the month's totals, under Spec.      *)

SingleDebtNoExtra ==
    /\ pc = "done"
    /\ Len(debts) = 1
    /\ debts[1].balance > 0
    /\ extra_payment = 0

\* A month's interest on the debt's initial balance.
FirstInterest(d) == (d.balance * d.interest_rate) \div 1200

SumOfWorkingBalances == SumSeq(BalancesOf(working_debts))

SumOfInitialBalances == SumSeq(BalancesOf(sorted_debts))

Converged == pc = "done" /\ ~AnyBalance(working_debts)

(* C25: money is conserved by the simulation: after any number of          *)
(* simulated months, the sum of the working balances equals the sum of the *)
(* initial balances plus all interest accrued so far minus all payments    *)
(* made so far; hence whenever the run converges, total_payments ==        *)
(* summary.total_debt + total_interest.                                    *)
C25_MoneyConserved ==
    /\ SumOfWorkingBalances =
          SumOfInitialBalances + total_interest_paid - total_payments
    /\ Converged =>
          result.total_payments = result.total_debt + result.total_interest

C25_Witness ==
    /\ Converged
    /\ NumDebts = 2
    /\ result.total_months >= 3
    /\ result.total_interest > 0
    /\ extra_payment > 0
    /\ \E i \in 1..NumDebts : ExtraReceived(i) > 0
    /\ result.total_payments > result.total_debt

\* Debt i had nothing owing when the month recorded last began.
PaidOffBefore(i) == MonthRecorded /\ start_balances[i] = 0

Identified == \A i \in 1..NumDebts : sorted_debts[i].id # NoId

\* A balance recorded at 0 is recorded at 0 in the next snapshot, and a debt
\* that owed nothing when a month began is left out of that month: no
\* interest, no payment record, no surplus, its balance still 0.  The
\* snapshot records balances by name: the entry of a name is the balance of
\* the last debt that carries it.
PaidOffStaysPaidOff ==
    /\ \A name \in DOMAIN prev_remaining :
          prev_remaining[name] = 0 => month_data.remaining_balances[name] = 0
    /\ \A i \in 1..NumDebts :
          PaidOffBefore(i) =>
              /\ InterestAdded(i) = 0
              /\ MinimumPaid(i) = 0
              /\ ExtraReceived(i) = 0
              /\ Recipient # i
              /\ working_debts[i].balance = 0
              /\ DistinctNames => RecordedRemaining(i) = 0
              /\ Identified =>
                    \A j \in 1..Len(month_data.payments) :
                        month_data.payments[j].debt_id # sorted_debts[i].id
    /\ MonthRecorded =>
          Len(month_data.payments) =
              Cardinality({i \in 1..NumDebts : start_balances[i] > 0})

\* From one month to the next the recipient of the surplus does not move
\* towards the front of the strategy order.
RecipientMovesOn ==
    (MonthRecorded /\ schedule_len' = schedule_len + 1
        /\ Recipient # 0 /\ Recipient' # 0) => Recipient' >= Recipient

(* C26: a paid-off debt stays paid off: once a debt's remaining balance is *)
(* 0 in some snapshot, it is 0 in every later snapshot, and in every later *)
(* month the debt accrues no interest, has no payment record and never     *)
(* receives the surplus, so the index of the surplus recipient in strategy *)
(* order never decreases from month to month.                              *)
C26_PaidOffStaysPaidOff == []PaidOffStaysPaidOff /\ [][RecipientMovesOn]_vars

C26_Witness ==
    /\ MonthRecorded
    /\ month_data.month >= 3
    /\ NumDebts = 2
    /\ PaidOffBefore(1)
    /\ prev_remaining[sorted_debts[1].name] = 0
    /\ Recipient = 2
    /\ ExtraReceived(2) > 0
    /\ Len(month_data.payments) = 1

SumOfOriginalMinimums ==
    SumSeq([i \in 1..Len(debts) |-> debts[i].minimum_payment])

\* No debt that owed when the month began was paid off in it.
NonePaidOffThisMonth ==
    \A i \in 1..NumDebts : start_balances[i] > 0 => working_debts[i].balance > 0

\* A debt is first in line for the surplus and still owes after the month.
RecipientNotPaidOff == Recipient # 0 /\ working_debts[Recipient].balance > 0

(* C27: in every month total_payment <= sum of the original minimum        *)
(* payments + extra_payment, with equality in every month in which the     *)
(* debt receiving the surplus is not paid off by it (minimums freed by     *)
(* already paid-off debts are redirected, not dropped); in particular with *)
(* extra_payment 0 and no debt paid off during the month, the month's      *)
(* total_payment equals the sum of the minimum payments.                   *)
C27_TotalPaymentWithinCapacity ==
    MonthRecorded =>
        /\ month_data.total_payment <= SumOfOriginalMinimums + extra_payment
        /\ RecipientNotPaidOff =>
              month_data.total_payment = SumOfOriginalMinimums + extra_payment
        /\ (extra_payment = 0 /\ NonePaidOffThisMonth) =>
              month_data.total_payment = SumOfOriginalMinimums

C27_Witness ==
    /\ MonthRecorded
    /\ month_data.month >= 2
    /\ extra_payment = 0
    /\ NumDebts = 2
    /\ \E i \in 1..NumDebts : PaidOffBefore(i) /\ sorted_debts[i].minimum_payment > 0
    /\ RecipientNotPaidOff
    /\ NonePaidOffThisMonth
    /\ ExtraReceived(Recipient) > 0
    /\ month_data.total_payment = SumOfOriginalMinimums

-----------------------------------------------------------------------------
(* Claims about every result of the slip detector, under SlipSpec.         *)

\* The relations between the fields of one result.
Coherent(r) ==
    /\ r.is_feasible = ~r.has_slip
    /\ r.surplus >= 0
    /\ r.shortfall >= 0
    /\ r.surplus = 0 \/ r.shortfall = 0
    /\ r.suggestion_amount > 0 <=> r.has_slip
    /\ r.has_slip =>
          /\ r.suggestion_amount % 2500 = 0
          /\ r.suggestion_amount >= r.shortfall
          /\ r.shortfall > 0 => r.suggestion_amount < r.shortfall + 2500

C29_TotalIsSumOfMinimums ==
    Analyzed => slip_result.total_minimum_payments = SumOfMinimums

\* The same for the results of a positive budget.
C29_TotalIsSumForPositiveBudget ==
    (Analyzed /\ monthly_budget > 0) =>
        slip_result.total_minimum_payments = SumOfMinimums

-----------------------------------------------------------------------------
(* Claims about validation followed by the sanitizer, under IntakeSpec.    *)

SanitizedAfterValidation ==
    intake_pc = "validated" /\ ReturnsNoError /\ intake_pc' = "cleaned"

\* The returned list is the given one, amounts untouched, a due day outside
\* 1..31 set to 1, and the sanitizer applied to it returns it again.
ReturnedAsGiven ==
    /\ cleaned_debts'.raised = ""
    /\ Len(cleaned_debts'.debts) = Len(raw_debts)
    /\ \A i \in 1..Len(raw_debts) :
          LET before == raw_debts[i]
              after == cleaned_debts'.debts[i]
          IN /\ after.name = before.name
             /\ after.balance = before.balance
             /\ after.interest_rate = before.interest_rate
             /\ after.minimum_payment = before.minimum_payment
             /\ after.due_date # before.due_date =>
                   /\ IsNumber(before.due_date)
                   /\ before.due_date.value \notin 1..31
                   /\ after.due_date = RawNumber(1)
    /\ HandleEdgeCases(cleaned_debts'.debts).raised = ""
    /\ HandleEdgeCases(cleaned_debts'.debts).debts = cleaned_debts'.debts

(* C30: for every portfolio on which validate_debt_portfolio returns no    *)
(* errors, handle_edge_cases returns the same debts in the same order with *)
(* balance, annual rate and minimum payment unchanged (only an             *)
(* out-of-range due day can change), so sanitization after a successful    *)
(* validation never drops a debt or alters the amounts the engine          *)
(* simulates; applying handle_edge_cases to its own output changes         *)
(* nothing.                                                                *)
C30_SanitizerKeepsValidated ==
    [][SanitizedAfterValidation => ReturnedAsGiven]_intake_pc

\* The due day is a number, or not in the dictionary.
DueDayUsable(d) == d.due_date.kind # "text"

\* The same for portfolios whose due days are numbers or not given.
C30_KeepsValidatedWithUsableDueDays ==
    [][(SanitizedAfterValidation
          /\ \A i \in 1..Len(raw_debts) : DueDayUsable(raw_debts[i]))
        => ReturnedAsGiven]_intake_pc

====
